---------------------------- MODULE Spec2Model ----------------------------
(***************************************************************************)
(* A model of the month-bucketed position cache (src/src/trace_month.rs)   *)
(* and of the leg segmenter (src/src/legs.rs) of private-jets.             *)
(*                                                                         *)
(* The specifications share the variables:                                 *)
(*   SpecKeys  the storage-key codec  pk_to_blob_name / blob_name_to_pk    *)
(*   SpecLegs  the leg segmenter      legs                                 *)
(*   Spec      the range assembler and the month cache                     *)
(*             aircraft_positions / month_positions                        *)
(*   SpecCall  one call of aircraft_positions, run to its end              *)
(*   SpecList  the enumeration of the stored month buckets                 *)
(*             existing_months_positions                                   *)
(* Strings are sequences of one-character strings, so that slicing,        *)
(* formatting and parsing are computed and not assumed.                    *)
(***************************************************************************)
EXTENDS Integers, Sequences, FiniteSets, TLC

VARIABLES
    \* ---- key codec
    kpc,            \* "idle" | "input" | "encoded" | "decoded"
    pk,             \* the (icao, year, month) being encoded
    blob,           \* the blob name under decoding
    parsed,         \* the result of blob_name_to_pk
    \* ---- leg segmenter
    lpc,            \* position of legs(): "idle" | "start" | "loop" | "assert" | ...
    trace,          \* the raw trace: a sequence of entries
    idx,            \* index of the next entry the iterator yields
    prev_position,  \* let mut prev_position
    first,          \* let first
    legs,           \* let mut legs: Vec<Leg>
    snapshot,       \* legs as they were when the forward pass ended
    \* ---- range assembler and month cache
    apc,            \* aircraft_positions: "idle" | "ready" | "collect" | "returned"
    from,           \* the requested range [from, to)
    to,
    icao_number,
    queue,          \* the month tasks not yet started, in iteration order
    running,        \* the month tasks started and not yet completed
    collected,      \* the mappings of the completed tasks (try_collect)
    outcome,        \* what aircraft_positions returned
    store,          \* the storage backend: blob name -> bytes
    now,            \* the current date (wall clock)
    calls,          \* number of aircraft_positions calls made so far
    started,        \* history: the months whose task was started in this call
    produced,       \* history: the keys whose producer ran in this call
    failed,         \* history: the month task of this call that failed, and how
    written,        \* history: the keys written to the backend since Init
    returned,       \* history: key -> mapping month_positions last returned for it
    \* ---- enumeration of the stored month buckets
    xpc,            \* existing_months_positions: "idle" | "ready" | "listing" | "returned"
    months,         \* the months: &[time::Date] argument
    concurrency,    \* the concurrency: usize argument
    listings,       \* one listing task per entry of months
    existing        \* what existing_months_positions returned

keyVars == <<kpc, pk, blob, parsed>>
legVars == <<lpc, trace, idx, prev_position, first, legs, snapshot>>
callVars == <<apc, from, to, icao_number, queue, running, collected, outcome>>
histVars == <<calls, started, produced, failed, written, returned>>
rangeVars == <<callVars, store, now, histVars>>
listVars == <<xpc, months, concurrency, listings, existing>>
vars == <<keyVars, legVars, rangeVars, listVars>>

None == [tag |-> "None"]
Panic == [tag |-> "Panic"]

(***************************************************************************)
(* Text: formatting and parsing of integers, slicing.                      *)
(***************************************************************************)
Digits == <<"0", "1", "2", "3", "4", "5", "6", "7", "8", "9">>

IsDigit(c) == \E d \in 1..10 : Digits[d] = c

DigitVal(c) == (CHOOSE d \in 1..10 : Digits[d] = c) - 1

RECURSIVE NatToStr(_)
NatToStr(n) ==
    IF n < 10 THEN <<Digits[n + 1]>>
    ELSE NatToStr(n \div 10) \o <<Digits[(n % 10) + 1]>>

\* format!("{}", i32)
FmtInt(n) == IF n < 0 THEN <<"-">> \o NatToStr(-n) ELSE NatToStr(n)

\* format!("{:02}", u8)
FmtPad2(n) == IF n < 10 THEN <<"0">> \o NatToStr(n) ELSE NatToStr(n)

AllDigits(s) == \A i \in 1..Len(s) : IsDigit(s[i])

RECURSIVE DigitsVal(_)
DigitsVal(s) ==
    IF s = <<>> THEN 0
    ELSE 10 * DigitsVal(SubSeq(s, 1, Len(s) - 1)) + DigitVal(s[Len(s)])

\* str::parse::<i32>(): an optional sign, then at least one digit
ParseI32(s) ==
    LET signed == s # <<>> /\ s[1] \in {"+", "-"}
        body == IF signed THEN Tail(s) ELSE s
    IN  IF body = <<>> \/ ~AllDigits(body) THEN [ok |-> FALSE, val |-> 0]
        ELSE [ok |-> TRUE,
              val |-> IF signed /\ s[1] = "-" THEN -DigitsVal(body) ELSE DigitsVal(body)]

\* str::parse::<u8>(): an optional "+", then at least one digit, at most 255
ParseU8(s) ==
    LET signed == s # <<>> /\ s[1] = "+"
        body == IF signed THEN Tail(s) ELSE s
    IN  IF body = <<>> \/ ~AllDigits(body) THEN [ok |-> FALSE, val |-> 0]
        ELSE IF DigitsVal(body) > 255 THEN [ok |-> FALSE, val |-> 0]
        ELSE [ok |-> TRUE, val |-> DigitsVal(body)]

\* &s[a..b], 0-based and half-open; SliceOk is false where Rust panics
SliceOk(s, a, b) == 0 <= a /\ a <= b /\ b <= Len(s)
Slice(s, a, b) == SubSeq(s, a + 1, b)

(***************************************************************************)
(* The key codec.                                                          *)
(***************************************************************************)
DIRECTORY == <<"d", "a", "t", "a", "b", "a", "s", "e">>
DATABASE == <<"g", "l", "o", "b", "e", "_", "h", "i", "s", "t", "o", "r", "y">>
TraceFull == <<"t", "r", "a", "c", "e", "_", "f", "u", "l", "l", "_">>
DotJson == <<".", "j", "s", "o", "n">>

\* "database/globe_history/".len(), "2024-01".len(), "2024-01/trace_full_".len()
PrefixLen == Len(DIRECTORY) + 1 + Len(DATABASE) + 1
MonthLen == 7
StemLen == MonthLen + 1 + Len(TraceFull)

pk_to_blob_name(icao, year, month) ==
    DIRECTORY \o <<"/">> \o DATABASE \o <<"/">> \o FmtInt(year) \o <<"-">>
        \o FmtPad2(month) \o <<"/">> \o TraceFull \o icao \o DotJson

blob_name_to_pk(b) ==
    IF ~SliceOk(b, PrefixLen, Len(b)) THEN Panic
    ELSE LET bla == Slice(b, PrefixLen, Len(b)) IN
    IF ~SliceOk(bla, 7, 8) THEN Panic
    ELSE IF Slice(bla, 7, 8) # <<"/">> THEN None
    ELSE LET date == Slice(bla, 0, MonthLen)
             end == Len(bla) IN
    IF ~SliceOk(bla, StemLen, end - Len(DotJson)) THEN Panic
    ELSE LET icao == Slice(bla, StemLen, end - Len(DotJson))
             y == ParseI32(Slice(date, 0, 4))
             m == ParseU8(Slice(date, 5, 7)) IN
    IF ~y.ok \/ ~m.ok \/ m.val \notin 1..12 THEN Panic
    ELSE [tag |-> "Some", icao |-> icao, year |-> y.val, month |-> m.val, day |-> 1]

Icaos == { <<>>, <<"a">>, <<"4", "8", "/", "f">> }
Years == {-9999, -1000, -999, -100, -99, -1, 0, 9, 99, 999, 1000, 2023, 2024, 9999}
Months == 1..12

\* month_positions, line 71: the key of the bucket of (icao, first day of month)
Encode ==
    /\ kpc = "input"
    /\ blob' = pk_to_blob_name(pk.icao, pk.year, pk.month)
    /\ kpc' = "encoded"
    /\ UNCHANGED <<pk, parsed>>

\* existing_months_positions_future, line 170: the key parsed back
Decode ==
    /\ kpc = "encoded"
    /\ parsed' = blob_name_to_pk(blob)
    /\ kpc' = "decoded"
    /\ UNCHANGED <<pk, blob>>

(***************************************************************************)
(* The leg segmenter.                                                      *)
(***************************************************************************)
GroundAltitude == 1000

Ground == [t |-> "str", s |-> "ground", n |-> 0]
Null == [t |-> "null", s |-> "", n |-> 0]
Num(x) == [t |-> "num", s |-> "", n |-> x]

Grounded(lat, long) == [tag |-> "Grounded", lat |-> lat, long |-> long, alt |-> 0]
Flying(lat, long, x) == [tag |-> "Flying", lat |-> lat, long |-> long, alt |-> x]

IsFlying(p) == p.tag = "Flying"
IsGrounded(p) == p.tag = "Grounded"

ToPositionNoThreshold(entry) ==
    IF entry.alt.t = "str" /\ entry.alt.s = "ground" THEN Grounded(entry.lat, entry.long)
    ELSE IF entry.alt.t = "num" THEN Flying(entry.lat, entry.long, entry.alt.n)
    ELSE Grounded(entry.lat, entry.long)

\* lines 38-59: one raw entry to a Position
ToPosition(entry) ==
    LET lat == entry.lat
        long == entry.long
        a == entry.alt
    IN  IF a.t = "str" /\ a.s = "ground" THEN Grounded(lat, long)
        ELSE IF a.t = "num"
             THEN IF a.n < GroundAltitude THEN Grounded(lat, long)
                  ELSE Flying(lat, long, a.n)
             ELSE Grounded(lat, long)

Leg(a, b) == [from |-> a, to |-> b]

SetLastTo(ls, p) == [ls EXCEPT ![Len(ls)].to = p]

TransitionFromPrev(ls, prev, position, fst) ==
    IF IsGrounded(prev) /\ IsFlying(position)
    THEN Append(ls, Leg(prev, prev))
    ELSE IF IsFlying(prev) /\ IsGrounded(position)
    THEN IF ls = <<>> THEN Append(ls, Leg(prev, position))
         ELSE SetLastTo(ls, position)
    ELSE ls

TransitionNoLanding(ls, prev, position, fst) ==
    IF IsGrounded(prev) /\ IsFlying(position)
    THEN Append(ls, Leg(prev, prev))
    ELSE IF IsFlying(prev) /\ IsGrounded(position)
    THEN IF ls = <<>> THEN Append(ls, Leg(fst, position))
         ELSE ls
    ELSE ls

TransitionOneLeg(ls, prev, position, fst) ==
    IF IsGrounded(prev) /\ IsFlying(position)
    THEN IF ls = <<>> THEN Append(ls, Leg(prev, prev)) ELSE ls
    ELSE IF IsFlying(prev) /\ IsGrounded(position)
    THEN IF ls = <<>> THEN Append(ls, Leg(fst, position))
         ELSE SetLastTo(ls, position)
    ELSE ls

\* lines 65-83: the match on (prev_position, position)
Transition(ls, prev, position, fst) ==
    IF IsGrounded(prev) /\ IsFlying(position)
    THEN Append(ls, Leg(prev, prev))
    ELSE IF IsFlying(prev) /\ IsGrounded(position)
    THEN IF ls = <<>> THEN Append(ls, Leg(fst, position))
         ELSE SetLastTo(ls, position)
    ELSE ls

\* line 86: assert!(!legs.is_empty())
AssertHolds(ls) == ls # <<>>

ExtendSkipped(ls, prev) == ls

\* lines 87-89: the leg still open when the trace ends
Extend(ls, prev) == IF IsFlying(prev) THEN SetLastTo(ls, prev) ELSE ls

MaxTrace == 5
Altitudes == {Ground, Null, Num(999), Num(1000), Num(5000)}

\* the sample at index i has latitude i: samples are told apart by it
Traces ==
    UNION { { [i \in 1..n |-> [lat |-> i, long |-> 0, alt |-> a[i]]] :
                a \in [1..n -> Altitudes] } : n \in 0..MaxTrace }

NoPosition == [tag |-> "None", lat |-> 0, long |-> 0, alt |-> 0]

\* lines 64-85 as a function of the trace: the legs after the first n samples
RECURSIVE Pass(_, _)
Pass(tr, n) ==
    IF n <= 1 THEN <<>>
    ELSE Transition(Pass(tr, n - 1), ToPosition(tr[n - 1]), ToPosition(tr[n]),
                    ToPosition(tr[1]))

\* lines 34-36 and 61-91 as a function of the trace
LegsOf(tr) ==
    IF tr = <<>> THEN [tag |-> "Ok", legs |-> <<>>]
    ELSE IF ~AssertHolds(Pass(tr, Len(tr))) THEN [tag |-> "Abort", legs |-> <<>>]
    ELSE [tag |-> "Ok", legs |-> Extend(Pass(tr, Len(tr)), ToPosition(tr[Len(tr)]))]

\* line 26: trace_cached(icao, date, cookie)? fails
LegsFetchErr ==
    /\ lpc = "start"
    /\ lpc' = "err"
    /\ UNCHANGED <<trace, idx, prev_position, first, legs, snapshot>>

LegsEmptyAsserts ==
    /\ lpc = "start"
    /\ trace = <<>>
    /\ lpc' = "abort"
    /\ UNCHANGED <<trace, idx, prev_position, first, legs, snapshot>>

\* lines 34-36: the empty trace
LegsEmpty ==
    /\ lpc = "start"
    /\ trace = <<>>
    /\ lpc' = "done"
    /\ UNCHANGED <<trace, idx, prev_position, first, legs, snapshot>>

\* lines 61-63: the first sample
LegsFirst ==
    /\ lpc = "start"
    /\ trace # <<>>
    /\ prev_position' = ToPosition(trace[1])
    /\ first' = ToPosition(trace[1])
    /\ legs' = <<>>
    /\ idx' = 2
    /\ lpc' = "loop"
    /\ UNCHANGED <<trace, snapshot>>

\* lines 64-85: one iteration of for_each
LegsStep ==
    /\ lpc = "loop"
    /\ idx <= Len(trace)
    /\ LET position == ToPosition(trace[idx]) IN
         /\ legs' = Transition(legs, prev_position, position, first)
         /\ prev_position' = position
    /\ idx' = idx + 1
    /\ UNCHANGED <<lpc, trace, first, snapshot>>

\* line 86: the assertion after the pass
LegsAssert ==
    /\ lpc = "loop"
    /\ idx > Len(trace)
    /\ lpc' = IF AssertHolds(legs) THEN "extend" ELSE "abort"
    /\ snapshot' = legs
    /\ UNCHANGED <<trace, idx, prev_position, first, legs>>

\* lines 87-91: the last leg extended, Ok(legs)
LegsReturn ==
    /\ lpc = "extend"
    /\ legs' = Extend(legs, prev_position)
    /\ lpc' = "done"
    /\ UNCHANGED <<trace, idx, prev_position, first, snapshot>>

(***************************************************************************)
(* Calendar dates (time::Date) and the day iterator.                       *)
(***************************************************************************)
Date(y, m, d) == [year |-> y, month |-> m, day |-> d]

IsLeap(y) == (y % 4 = 0 /\ y % 100 # 0) \/ y % 400 = 0

DaysInMonth(y, m) ==
    IF m = 2 THEN (IF IsLeap(y) THEN 29 ELSE 28)
    ELSE IF m \in {4, 6, 9, 11} THEN 30 ELSE 31

DateLess(a, b) ==
    \/ a.year < b.year
    \/ a.year = b.year /\ a.month < b.month
    \/ a.year = b.year /\ a.month = b.month /\ a.day < b.day

\* date + time::Duration::days(1)
NextDay(d) ==
    IF d.day < DaysInMonth(d.year, d.month) THEN Date(d.year, d.month, d.day + 1)
    ELSE IF d.month < 12 THEN Date(d.year, d.month + 1, 1)
    ELSE Date(d.year + 1, 1, 1)

RECURSIVE AddDays(_, _)
AddDays(d, n) == IF n = 0 THEN d ELSE AddDays(NextDay(d), n - 1)

\* DateIter { from, to, increment: 1 day }: the dates d with from <= d < to
RECURSIVE DateIter(_, _)
DateIter(a, b) == IF DateLess(a, b) THEN <<a>> \o DateIter(NextDay(a), b) ELSE <<>>

Range(s) == {s[i] : i \in 1..Len(s)}

\* line 115: from_calendar_date(x.year(), x.month(), 1)
FirstOfMonth(d) == Date(d.year, d.month, 1)

\* time::Month::next()
MonthNext(m) == IF m = 12 THEN 1 ELSE m + 1

get_month_same_year(current) ==
    <<Date(current.year, current.month, 1),
      Date(current.year, MonthNext(current.month), 1)>>

\* lines 47-62
get_month(current) ==
    LET first_of_month == Date(current.year, current.month, 1)
        next_month == MonthNext(current.month)
        first_of_next_month ==
            IF next_month = 1 THEN Date(current.year + 1, 1, 1)
            ELSE Date(current.year, next_month, 1)
    IN  <<first_of_month, first_of_next_month>>

(***************************************************************************)
(* The stored payload: a JSON object from ISO date string to positions.    *)
(* A date string "YYYY-MM-DD" is kept as its three fields.                 *)
(***************************************************************************)
DateToString(d) == <<d.year, d.month, d.day>>
DateFromString(s) == Date(s[1], s[2], s[3])

EmptyMap == [x \in {} |-> <<>>]

\* serde_json::to_writer over HashMap<String, Vec<Position>>
ToJson(m) == [kind |-> "json", map |-> m]
Corrupt == [kind |-> "corrupt", map |-> EmptyMap]

\* lines 80-86: keys to strings, then bytes
Serialize(positions) ==
    ToJson([s \in {DateToString(d) : d \in DOMAIN positions} |->
               positions[DateFromString(s)]])

DeserializeLenient(bytes) ==
    IF bytes.kind = "json"
    THEN [ok |-> TRUE,
          map |-> [d \in {DateFromString(s) : s \in DOMAIN bytes.map} |->
                      bytes.map[DateToString(d)]]]
    ELSE [ok |-> TRUE, map |-> EmptyMap]

\* line 91: serde_json::from_slice into HashMap<Date, Vec<Position>>
Deserialize(bytes) ==
    IF bytes.kind = "json"
    THEN [ok |-> TRUE,
          map |-> [d \in {DateFromString(s) : s \in DOMAIN bytes.map} |->
                      bytes.map[DateToString(d)]]]
    ELSE [ok |-> FALSE, map |-> EmptyMap]

(***************************************************************************)
(* The day-level fetcher and the cache primitive (not part of the sources  *)
(* at hand: modelled from their contract).                                 *)
(***************************************************************************)
\* what the remote source holds for one aircraft and one day
RemotePositions(icao, d) == IF d.day % 2 = 0 THEN <<>> ELSE <<d.day>>

\* cached_aircraft_positions(from, to, icao, client): every day of [from, to),
\* or the error of the day that failed
cached_aircraft_positions(a, b, icao, ok) ==
    IF ok
    THEN [ok |-> TRUE, map |-> [d \in Range(DateIter(a, b)) |-> RemotePositions(icao, d)]]
    ELSE [ok |-> FALSE, map |-> EmptyMap]

\* cached_call: backend.read(key)
CacheRead(st, key) ==
    IF key \in DOMAIN st THEN [hit |-> TRUE, bytes |-> st[key]]
    ELSE [hit |-> FALSE, bytes |-> Corrupt]

\* CacheAction::from_date(&to): Final once the month has fully elapsed
from_date(date, today) == IF DateLess(today, date) THEN "Refreshable" ELSE "Final"

PollsWhenRefreshable(hit, action) == ~hit \/ action = "Refreshable"

\* cached_call: the producer is awaited on a miss only, whatever the CacheAction
PollsProducer(hit, action) == ~hit

\* cached_call: backend.write(key, result), a whole-object overwrite
CacheWrite(st, key, bytes) ==
    [k \in DOMAIN st \cup {key} |-> IF k = key THEN bytes ELSE st[k]]

(***************************************************************************)
(* month_positions                                                         *)
(***************************************************************************)
FetchSwallow(month, icao, ok) ==
    LET gm == get_month(month)
        r == cached_aircraft_positions(gm[1], gm[2], icao, ok)
    IN  [ok |-> TRUE, bytes |-> Serialize(r.map)]

\* lines 77-88: the producer; `?` hands the fetch error on
Fetch(month, icao, ok) ==
    LET gm == get_month(month)
        r == cached_aircraft_positions(gm[1], gm[2], icao, ok)
    IN  IF ~r.ok THEN [ok |-> FALSE, bytes |-> Corrupt]
        ELSE [ok |-> TRUE, bytes |-> Serialize(r.map)]

NewTaskFromStart(month, icao, today) ==
    [month |-> month,
     key |-> pk_to_blob_name(icao, month.year, month.month),
     action |-> from_date(get_month(month)[1], today),
     tpc |-> "read",
     bytes |-> Corrupt]

\* lines 69-74: a task as it starts, with the key of its bucket and the
\* CacheAction of its month
NewTask(month, icao, today) ==
    [month |-> month,
     key |-> pk_to_blob_name(icao, month.year, month.month),
     action |-> from_date(get_month(month)[2], today),
     tpc |-> "read",
     bytes |-> Corrupt]

(***************************************************************************)
(* aircraft_positions                                                      *)
(***************************************************************************)
Concurrency == 1

MonthsOfDates(a, b) == Range(DateIter(a, b))

\* lines 112-117: the months of the range, first days
MonthsOf(a, b) == {FirstOfMonth(d) : d \in Range(DateIter(a, b))}

Perms(S) == {q \in [1..Cardinality(S) -> S] : \A i, j \in DOMAIN q : q[i] = q[j] => i = j}

LaunchUnbounded(r) == TRUE

\* line 125: .buffered(1) pulls a task only while fewer are in progress
CanLaunch(r) == Cardinality(r) < Concurrency

AbortsNever(res) == FALSE

\* lines 126-127: try_collect()? stops at the first Err
Aborts(res) == ~res.ok

MergeAppend(ms) == IF ms = <<>> THEN EmptyMap ELSE ms[Len(ms)]

\* line 130: flatten and collect, a later entry replacing an earlier one
RECURSIVE Merge(_)
Merge(ms) ==
    IF ms = <<>> THEN EmptyMap
    ELSE LET rest == Merge(SubSeq(ms, 1, Len(ms) - 1))
             last == ms[Len(ms)]
         IN  [d \in DOMAIN rest \cup DOMAIN last |->
                 IF d \in DOMAIN last THEN last[d] ELSE rest[d]]

ResliceAll(positions, dates) == [tag |-> "Ok", map |-> positions]

\* lines 132-142: one entry per date of the range, .expect() on a missing one
Reslice(positions, dates) ==
    IF \E d \in Range(dates) : d \notin DOMAIN positions THEN [tag |-> "Panic", map |-> EmptyMap]
    ELSE [tag |-> "Ok", map |-> [d \in Range(dates) |-> positions[d]]]

Err == [tag |-> "Err", map |-> EmptyMap]
NoOutcome == [tag |-> "None", map |-> EmptyMap]

\* lines 129-142, once every task has been collected
Assemble(ms, a, b) == Reslice(Merge(ms), DateIter(a, b))

MaxDays == 3
MaxCalls == 2

ClockStart == Date(2023, 12, 31)
ClockEnd == Date(2024, 1, 1)

NoFailure == [kind |-> "none", key |-> <<>>]

RangeIcaos == { <<"a">>, <<"b">> }
FromDates == {Date(2023, 12, 30)}
Requests ==
    {[icao |-> i, from |-> f, to |-> AddDays(f, n)] :
        i \in RangeIcaos, f \in FromDates, n \in 0..MaxDays}

WindowMonths == UNION {MonthsOf(f, AddDays(f, MaxDays)) : f \in FromDates}

\* objects the backend may hold before the first call: a bucket written by
\* an earlier run, the JSON object {}, a bucket that also holds the first
\* day of the next month, bytes that are no JSON
OldBucket(m) == [d \in Range(DateIter(m, get_month(m)[2])) |-> <<0>>]
OldBucketPlus(m) == [d \in Range(DateIter(m, NextDay(get_month(m)[2]))) |-> <<0>>]
StoredBefore(m) ==
    {Serialize(OldBucket(m)), ToJson(EmptyMap), Serialize(OldBucketPlus(m)), Corrupt}

EmptyStore == [k \in {} |-> Corrupt]
InitStores ==
    {EmptyStore} \cup
    UNION {{[k \in {pk_to_blob_name(i, m.year, m.month)} |-> o] : o \in StoredBefore(m)} :
              i \in RangeIcaos, m \in WindowMonths}

\* lines 106-127: the months of the range, in the iteration order of the
\* HashSet; an empty range has no task and is assembled at once
Dispatch ==
    /\ apc = "ready"
    /\ \E q \in Perms(MonthsOf(from, to)) :
         /\ queue' = q
         /\ IF q = <<>>
            THEN apc' = "returned" /\ outcome' = Assemble(<<>>, from, to)
            ELSE apc' = "collect" /\ UNCHANGED outcome
    /\ UNCHANGED <<from, to, icao_number, running, collected, store, now, histVars>>

\* lines 119-125: the stream pulls the next task into the buffer
Launch ==
    /\ apc = "collect"
    /\ queue # <<>>
    /\ CanLaunch(running)
    /\ running' = running \cup {NewTask(Head(queue), icao_number, now)}
    /\ queue' = Tail(queue)
    /\ started' = started \cup {Head(queue)}
    /\ UNCHANGED <<apc, from, to, icao_number, collected, outcome, store, now,
                   calls, produced, failed, written, returned>>

Step(t, u) == running' = (running \ {t}) \cup {u}

\* lines 90-91 and 123-143: month_positions returns res; try_collect keeps
\* it or stops; after the last task the mapping is assembled
Completes(t, res, how) ==
    /\ failed' = IF res.ok THEN failed ELSE [kind |-> how, key |-> t.key]
    /\ returned' = IF res.ok
                   THEN [k \in DOMAIN returned \cup {t.key} |->
                            IF k = t.key THEN res.map ELSE returned[k]]
                   ELSE returned
    /\ IF Aborts(res)
       THEN /\ apc' = "returned"
            /\ outcome' = Err
            /\ queue' = <<>>
            /\ running' = {}
            /\ collected' = <<>>
       ELSE LET c == IF res.ok THEN Append(collected, res.map) ELSE collected
                r == running \ {t}
            IN  /\ running' = r
                /\ collected' = c
                /\ queue' = queue
                /\ IF queue = <<>> /\ r = {}
                   THEN apc' = "returned" /\ outcome' = Assemble(c, from, to)
                   ELSE UNCHANGED <<apc, outcome>>
    /\ UNCHANGED <<from, to, icao_number>>

\* cached_call: the read of the key
TaskRead(t) ==
    /\ t.tpc = "read"
    /\ LET r == CacheRead(store, t.key) IN
         IF PollsProducer(r.hit, t.action)
         THEN Step(t, [t EXCEPT !.tpc = "fetch"])
         ELSE Step(t, [t EXCEPT !.tpc = "decode", !.bytes = r.bytes])
    /\ UNCHANGED <<apc, from, to, icao_number, queue, collected, outcome, store, now,
                   histVars>>

\* lines 77-88: the producer runs; its error leaves month_positions at once
TaskFetch(t) ==
    /\ t.tpc = "fetch"
    /\ produced' = produced \cup {t.key}
    /\ \E ok \in BOOLEAN :
         LET f == Fetch(t.month, icao_number, ok) IN
           IF f.ok
           THEN /\ Step(t, [t EXCEPT !.tpc = "write", !.bytes = f.bytes])
                /\ UNCHANGED <<apc, from, to, icao_number, queue, collected, outcome,
                               failed, returned>>
           ELSE Completes(t, [ok |-> FALSE, map |-> EmptyMap], "producer")
    /\ UNCHANGED <<store, now, calls, started, written>>

\* cached_call: the produced bytes written under the key
TaskWrite(t) ==
    /\ t.tpc = "write"
    /\ store' = CacheWrite(store, t.key, t.bytes)
    /\ written' = written \cup {t.key}
    /\ Step(t, [t EXCEPT !.tpc = "decode"])
    /\ UNCHANGED <<apc, from, to, icao_number, queue, collected, outcome, now,
                   calls, started, produced, failed, returned>>

\* line 91: the bytes decoded, month_positions returns
TaskReturn(t) ==
    /\ t.tpc = "decode"
    /\ Completes(t, Deserialize(t.bytes), "decode")
    /\ UNCHANGED <<store, now, calls, started, produced, written>>

\* the next call of aircraft_positions on the same backend
NextCall ==
    /\ apc = "returned"
    /\ calls < MaxCalls
    /\ \E r \in Requests :
         /\ icao_number' = r.icao
         /\ from' = r.from
         /\ to' = r.to
    /\ apc' = "ready"
    /\ outcome' = NoOutcome
    /\ collected' = <<>>
    /\ calls' = calls + 1
    /\ started' = {}
    /\ produced' = {}
    /\ failed' = NoFailure
    /\ UNCHANGED <<queue, running, store, now, written, returned>>

\* the wall clock passes midnight
Tick ==
    /\ DateLess(now, ClockEnd)
    /\ now' = NextDay(now)
    /\ UNCHANGED <<callVars, store, histVars>>

(***************************************************************************)
(* existing_months_positions: the month buckets the backend holds.         *)
(***************************************************************************)
StartsWith(s, p) == Len(p) <= Len(s) /\ SubSeq(s, 1, Len(p)) = p

\* lines 154-158: format!("database/globe_history/{}-{:02}", year, month)
ListPrefix(month) ==
    DIRECTORY \o <<"/">> \o DATABASE \o <<"/">> \o FmtInt(month.year) \o <<"-">>
        \o FmtPad2(month.month)

\* BlobItem::Blob(blob) and BlobItem::BlobPrefix(_)
Blob(name) == [kind |-> "Blob", name |-> name]
BlobPrefix(name) == [kind |-> "BlobPrefix", name |-> name]

\* list_blobs().prefix(p): every blob whose name starts with p, and the
\* virtual directories the service may report along with them
ListBlobs(st, p, dirs) ==
    {Blob(n) : n \in {k \in DOMAIN st : StartsWith(k, p)}} \cup
    (IF dirs THEN {BlobPrefix(p \o <<"/">>)} ELSE {})

\* lines 163-171 on one page: blob prefixes dropped, names parsed, the
\* names parsed to None dropped
RECURSIVE PagePairs(_)
PagePairs(page) ==
    IF page = <<>> THEN <<>>
    ELSE LET item == Head(page)
             rest == PagePairs(Tail(page))
         IN  IF item.kind = "BlobPrefix" THEN rest
             ELSE LET r == blob_name_to_pk(item.name)
                  IN  IF r.tag = "Some"
                      THEN <<[icao |-> r.icao,
                              date |-> Date(r.year, r.month, r.day)]>> \o rest
                      ELSE rest

\* lines 15-35 on one page: a name on which blob_name_to_pk panics
PagePanics(page) ==
    \E i \in 1..Len(page) :
        page[i].kind = "Blob" /\ blob_name_to_pk(page[i].name) = Panic

NoListing == [tag |-> "None", set |-> {}]
ListingErr == [tag |-> "Err", set |-> {}]
ListingPanic == [tag |-> "Panic", set |-> {}]

Queued == [st |-> "queued", rest |-> <<>>, got |-> <<>>]

\* the tasks pulled from the iterator so far, and those yielded in order
Pulled(ls) == Cardinality({i \in 1..Len(ls) : ls[i].st # "queued"})
Yielded(ls) ==
    Cardinality({i \in 1..Len(ls) : \A j \in 1..i : ls[j].st = "done"})

\* line 188: .buffered(concurrency)
CanList(ls, c) == Pulled(ls) - Yielded(ls) < c

\* line 192: flatten, flatten, collect into the HashSet
RECURSIVE Flatten(_)
Flatten(ls) ==
    IF ls = <<>> THEN {}
    ELSE Range(Head(ls).got) \cup Flatten(Tail(ls))

\* names the backend may hold
Base == DIRECTORY \o <<"/">> \o DATABASE \o <<"/">>
Jan24 == <<"2", "0", "2", "4", "-", "0", "1">>
ListIcaos == { <<"a">>, <<"b">> }
ListNames ==
    { pk_to_blob_name(<<"a">>, 2024, 1),
      pk_to_blob_name(<<"b">>, 2024, 1),
      pk_to_blob_name(<<"a">>, 2024, 2),
      pk_to_blob_name(<<"a">>, 999, 1),
      Base \o Jan24 \o <<"-", "0", "5", "/">> \o TraceFull \o <<"a">> \o DotJson,
      Base \o Jan24 \o <<"/">>,
      Base \o Jan24,
      Base \o Jan24 \o <<"/", "x">>,
      Base \o Jan24 \o <<"/">> \o TraceFull \o <<".", "t", "m", "p">>,
      Base \o Jan24 \o <<"/", "r", "e", "a", "d", "m", "e", "_", "f", "o", "r",
                         "_", "h", "u", "m", "a", "n", "s", ".", "m", "d">>,
      Base \o <<"9", "9", "9", "-", "0", "1", "x", "/">> \o TraceFull
           \o <<"a">> \o DotJson,
      <<"x">> }

MaxBlobs == 2

ListStores ==
    {[k \in S |-> ToJson(EmptyMap)] :
        S \in {T \in SUBSET ListNames : Cardinality(T) <= MaxBlobs}}

MonthLists ==
    { <<>>,
      <<Date(2024, 1, 1)>>,
      <<Date(999, 1, 1)>>,
      <<Date(2024, 1, 1), Date(2024, 2, 1)>>,
      <<Date(2024, 2, 1), Date(2024, 1, 1)>>,
      <<Date(2024, 1, 1), Date(2024, 1, 1)>> }

Concurrencies == {1, 2}

\* lines 183-188: the next listing is pulled and its first request sent;
\* the service lists the matching blobs in an order of its own
ListStart ==
    /\ xpc = "listing"
    /\ Pulled(listings) < Len(listings)
    /\ CanList(listings, concurrency)
    /\ LET i == Pulled(listings) + 1 IN
         \E dirs \in BOOLEAN :
           \E q \in Perms(ListBlobs(store, ListPrefix(months[i]), dirs)) :
             listings' = [listings EXCEPT ![i] =
                             [st |-> "running", rest |-> q, got |-> <<>>]]
    /\ UNCHANGED <<xpc, months, concurrency, existing>>

\* lines 160-172: one page of a listing arrives and is mapped
ListPage(i) ==
    /\ xpc = "listing"
    /\ listings[i].st = "running"
    /\ listings[i].rest # <<>>
    /\ \E k \in 1..Len(listings[i].rest) :
         LET page == SubSeq(listings[i].rest, 1, k)
             left == SubSeq(listings[i].rest, k + 1, Len(listings[i].rest))
         IN  IF PagePanics(page)
             THEN /\ xpc' = "returned"
                  /\ existing' = ListingPanic
                  /\ listings' = <<>>
             ELSE /\ listings' = [listings EXCEPT
                                     ![i].rest = left,
                                     ![i].got = @ \o PagePairs(page)]
                  /\ UNCHANGED <<xpc, existing>>
    /\ UNCHANGED <<months, concurrency>>

\* lines 161 and 189-190: a page request fails; `?` hands the error on
ListPageErr(i) ==
    /\ xpc = "listing"
    /\ listings[i].st = "running"
    /\ xpc' = "returned"
    /\ existing' = ListingErr
    /\ listings' = <<>>
    /\ UNCHANGED <<months, concurrency>>

\* line 185: the stream of pages ends, try_collect of the listing completes
ListEnd(i) ==
    /\ xpc = "listing"
    /\ listings[i].st = "running"
    /\ listings[i].rest = <<>>
    /\ listings' = [listings EXCEPT ![i].st = "done"]
    /\ UNCHANGED <<xpc, months, concurrency, existing>>

\* lines 187-192: every listing has completed; the pairs are collected
ListReturn ==
    /\ xpc = "listing"
    /\ \A i \in 1..Len(listings) : listings[i].st = "done"
    /\ xpc' = "returned"
    /\ existing' = [tag |-> "Ok", set |-> Flatten(listings)]
    /\ UNCHANGED <<months, concurrency, listings>>

(***************************************************************************)
(* The specifications.                                                     *)
(***************************************************************************)
Init ==
    /\ kpc = "idle" /\ pk = None /\ blob = <<>> /\ parsed = None
    /\ lpc = "idle" /\ trace = <<>> /\ idx = 0
    /\ prev_position = NoPosition /\ first = NoPosition
    /\ legs = <<>> /\ snapshot = <<>>
    /\ apc = "ready"
    /\ \E r \in Requests : icao_number = r.icao /\ from = r.from /\ to = r.to
    /\ queue = <<>>
    /\ running = {}
    /\ collected = <<>>
    /\ outcome = NoOutcome
    /\ store \in InitStores
    /\ now = ClockStart
    /\ calls = 1
    /\ started = {}
    /\ produced = {}
    /\ failed = NoFailure
    /\ written = {}
    /\ returned = EmptyMap
    /\ xpc = "idle" /\ months = <<>> /\ concurrency = 0 /\ listings = <<>>
    /\ existing = NoListing

Next ==
    \/ Dispatch /\ UNCHANGED <<keyVars, legVars, listVars>>
    \/ Launch /\ UNCHANGED <<keyVars, legVars, listVars>>
    \/ \E t \in running : TaskRead(t) /\ UNCHANGED <<keyVars, legVars, listVars>>
    \/ \E t \in running : TaskFetch(t) /\ UNCHANGED <<keyVars, legVars, listVars>>
    \/ \E t \in running : TaskWrite(t) /\ UNCHANGED <<keyVars, legVars, listVars>>
    \/ \E t \in running : TaskReturn(t) /\ UNCHANGED <<keyVars, legVars, listVars>>
    \/ NextCall /\ UNCHANGED <<keyVars, legVars, listVars>>
    \/ Tick /\ UNCHANGED <<keyVars, legVars, listVars>>

Spec == Init /\ [][Next]_vars

InitLegs ==
    /\ kpc = "idle" /\ pk = None /\ blob = <<>> /\ parsed = None
    /\ lpc = "start"
    /\ trace \in Traces
    /\ idx = 0
    /\ prev_position = NoPosition
    /\ first = NoPosition
    /\ legs = <<>>
    /\ snapshot = <<>>
    /\ apc = "idle" /\ from = Date(0, 1, 1) /\ to = Date(0, 1, 1) /\ icao_number = <<>>
    /\ queue = <<>> /\ running = {} /\ collected = <<>> /\ outcome = NoOutcome
    /\ store = EmptyStore /\ now = ClockStart /\ calls = 0 /\ started = {}
    /\ produced = {} /\ failed = NoFailure /\ written = {} /\ returned = EmptyMap
    /\ xpc = "idle" /\ months = <<>> /\ concurrency = 0 /\ listings = <<>>
    /\ existing = NoListing

NextLegs ==
    \/ LegsFetchErr /\ UNCHANGED <<keyVars, rangeVars, listVars>>
    \/ LegsEmpty /\ UNCHANGED <<keyVars, rangeVars, listVars>>
    \/ LegsFirst /\ UNCHANGED <<keyVars, rangeVars, listVars>>
    \/ LegsStep /\ UNCHANGED <<keyVars, rangeVars, listVars>>
    \/ LegsAssert /\ UNCHANGED <<keyVars, rangeVars, listVars>>
    \/ LegsReturn /\ UNCHANGED <<keyVars, rangeVars, listVars>>

SpecLegs == InitLegs /\ [][NextLegs]_vars

InitKeys ==
    /\ kpc = "input"
    /\ pk \in [icao : Icaos, year : Years, month : Months]
    /\ blob = <<>>
    /\ parsed = None
    /\ lpc = "idle" /\ trace = <<>> /\ idx = 0
    /\ prev_position = NoPosition /\ first = NoPosition
    /\ legs = <<>> /\ snapshot = <<>>
    /\ apc = "idle" /\ from = Date(0, 1, 1) /\ to = Date(0, 1, 1) /\ icao_number = <<>>
    /\ queue = <<>> /\ running = {} /\ collected = <<>> /\ outcome = NoOutcome
    /\ store = EmptyStore /\ now = ClockStart /\ calls = 0 /\ started = {}
    /\ produced = {} /\ failed = NoFailure /\ written = {} /\ returned = EmptyMap
    /\ xpc = "idle" /\ months = <<>> /\ concurrency = 0 /\ listings = <<>>
    /\ existing = NoListing

NextKeys ==
    \/ Encode /\ UNCHANGED <<legVars, rangeVars, listVars>>
    \/ Decode /\ UNCHANGED <<legVars, rangeVars, listVars>>

SpecKeys == InitKeys /\ [][NextKeys]_vars

InitList ==
    /\ kpc = "idle" /\ pk = None /\ blob = <<>> /\ parsed = None
    /\ lpc = "idle" /\ trace = <<>> /\ idx = 0
    /\ prev_position = NoPosition /\ first = NoPosition
    /\ legs = <<>> /\ snapshot = <<>>
    /\ apc = "idle" /\ from = Date(0, 1, 1) /\ to = Date(0, 1, 1) /\ icao_number = <<>>
    /\ queue = <<>> /\ running = {} /\ collected = <<>> /\ outcome = NoOutcome
    /\ store \in ListStores
    /\ now = ClockStart /\ calls = 0 /\ started = {}
    /\ produced = {} /\ failed = NoFailure /\ written = {} /\ returned = EmptyMap
    /\ xpc = "listing"
    /\ months \in MonthLists
    /\ concurrency \in Concurrencies
    /\ listings = [i \in 1..Len(months) |-> Queued]
    /\ existing = NoListing

NextList ==
    \/ ListStart /\ UNCHANGED <<keyVars, legVars, rangeVars>>
    \/ \E i \in 1..Len(listings) : ListPage(i) /\ UNCHANGED <<keyVars, legVars, rangeVars>>
    \/ \E i \in 1..Len(listings) : ListPageErr(i) /\ UNCHANGED <<keyVars, legVars, rangeVars>>
    \/ \E i \in 1..Len(listings) : ListEnd(i) /\ UNCHANGED <<keyVars, legVars, rangeVars>>
    \/ ListReturn /\ UNCHANGED <<keyVars, legVars, rangeVars>>

SpecList == InitList /\ [][NextList]_vars

\* one call of aircraft_positions, run to its end: the executor polls the
\* call until it returns, and every read, fetch and write completes
NextOne ==
    \/ Dispatch /\ UNCHANGED <<keyVars, legVars, listVars>>
    \/ Launch /\ UNCHANGED <<keyVars, legVars, listVars>>
    \/ \E t \in running : TaskRead(t) /\ UNCHANGED <<keyVars, legVars, listVars>>
    \/ \E t \in running : TaskFetch(t) /\ UNCHANGED <<keyVars, legVars, listVars>>
    \/ \E t \in running : TaskWrite(t) /\ UNCHANGED <<keyVars, legVars, listVars>>
    \/ \E t \in running : TaskReturn(t) /\ UNCHANGED <<keyVars, legVars, listVars>>
    \/ Tick /\ UNCHANGED <<keyVars, legVars, listVars>>

SpecCall == Init /\ [][NextOne]_vars /\ WF_vars(NextOne)

(***************************************************************************)
(* Properties of the range assembler and of the month cache.               *)
(***************************************************************************)
Calendar ==
    UNION {{Date(m.year, m.month, d) : d \in 1..DaysInMonth(m.year, m.month)} :
              m \in WindowMonths}

\* the dates d with a <= d < b
DatesBetween(a, b) == {d \in Calendar : ~DateLess(d, a) /\ DateLess(d, b)}

KeyOf(icao, m) == pk_to_blob_name(icao, m.year, m.month)

Covered == \A d \in DatesBetween(from, to) : \E i \in 1..Len(collected) : d \in DOMAIN collected[i]

IsWholeMonth(key, bytes) ==
    LET p == blob_name_to_pk(key)
    IN  /\ p.tag = "Some"
        /\ bytes.kind = "json"
        /\ DOMAIN bytes.map =
              {<<p.year, p.month, d>> : d \in 1..DaysInMonth(p.year, p.month)}

\* C3: when the producer fails the call returns the error and the key is
\* still absent from the backend; the step in which it fails writes
\* nothing; and every object a step writes holds the whole month of its key
C3_NoWriteOnFailure ==
    /\ [](failed.kind = "producer"
            => (outcome = Err /\ failed.key \notin DOMAIN store))
    /\ [][(failed' # failed /\ failed'.kind = "producer") => store' = store]_vars
    /\ [][\A k \in DOMAIN store' :
            (k \notin DOMAIN store \/ store'[k] # store[k])
                => IsWholeMonth(k, store'[k])]_vars

C3_Witness ==
    /\ failed.kind = "producer"
    /\ Cardinality(started) = 2
    /\ written # {}

\* C4: once a key has been written, no later step runs the producer for
\* it, and month_positions returns for it the mapping it returned before
C4_CacheIdempotence ==
    /\ [][\A k \in written : k \in produced' => k \in produced]_vars
    /\ [][\A k \in written \cap DOMAIN returned :
            k \in DOMAIN returned' /\ returned'[k] = returned[k]]_vars

C4_Witness ==
    /\ calls = 2
    /\ apc = "returned"
    /\ outcome.tag = "Ok"
    /\ produced = {}
    /\ \E m \in started : KeyOf(icao_number, m) \in written

\* C5 as stated: every queued month task is started by the time the call
\* has returned
C5_AllStarted ==
    apc = "returned" => \A m \in WindowMonths :
        (\E d \in DatesBetween(from, to) : d.year = m.year /\ d.month = m.month)
            => m \in started

\* C5 amended: never more than Concurrency tasks in flight; a task starts
\* only while fewer than Concurrency are in flight; and every queued task
\* is eventually started unless a task fails first, after which none is
C5_BoundedConcurrency ==
    /\ [](Cardinality(running) <= Concurrency)
    /\ [][started' # started => Cardinality(running) < Concurrency]_vars
    /\ [][failed.kind # "none" => started' = started]_vars
    /\ \A m \in WindowMonths :
          (apc = "collect" /\ \E i \in 1..Len(queue) : queue[i] = m)
              ~> (m \in started \/ failed.kind # "none")

C5_Witness ==
    /\ Cardinality(running) = 1
    /\ queue # <<>>
    /\ started # {}

\* C10: as soon as a month task has failed the call has returned the
\* error, and no mapping
C10_NoPartialResult ==
    (failed.kind # "none") => (apc = "returned" /\ outcome = Err)

C10_Witness ==
    /\ failed.kind # "none"
    /\ Cardinality(started) = 2
    /\ outcome.map = EmptyMap

\* the distinct (year, month) pairs among the dates of [a, b)
MonthPairs(a, b) == {<<d.year, d.month>> : d \in DatesBetween(a, b)}

\* bytes that hold one entry per day of the month m, and no other entry
WholeMonthOf(m, bytes) ==
    /\ bytes.kind = "json"
    /\ DOMAIN bytes.map =
          {DateToString(Date(m.year, m.month, d)) :
              d \in 1..DaysInMonth(m.year, m.month)}

\* C13: the key of a month task is that of (aircraft, first day of the
\* month), whatever the range asked; the bytes its producer hands over on a
\* miss hold one entry per day of that month, from the 1st up to the day
\* before the 1st of the next month (January of the next year after
\* December), and these are the bytes written under the key; a later task
\* that reads a key written before does not run the producer but takes the
\* stored object
C13_WholeMonthUnit ==
    /\ [](\A t \in running :
            /\ t.key = KeyOf(icao_number, t.month)
            /\ \E d \in DatesBetween(from, to) :
                  t.month = Date(d.year, d.month, 1))
    /\ [][\A u \in running' :
            (u.tpc = "write" /\ u \notin running) => WholeMonthOf(u.month, u.bytes)]_vars
    /\ [][\A t \in running :
            (t.tpc = "write" /\ t \notin running')
                => (t.key \in DOMAIN store' /\ store'[t.key] = t.bytes)]_vars
    /\ [][\A t \in running :
            (t.tpc = "read" /\ t \notin running' /\ t.key \in written)
                => [t EXCEPT !.tpc = "decode", !.bytes = store[t.key]] \in running']_vars

C13_Witness ==
    /\ calls = 2
    /\ \E t \in running :
          /\ t.tpc = "decode"
          /\ t.month = Date(2023, 12, 1)
          /\ t.key \in written
          /\ t.key \notin produced
          /\ WholeMonthOf(t.month, t.bytes)
          /\ Cardinality(DOMAIN t.bytes.map) = 31

\* the month m has fully elapsed on the day today
Elapsed(m, today) ==
    today.year > m.year \/ (today.year = m.year /\ today.month > m.month)

\* lines 73-74: the CacheAction month_positions computes for m on a day
ActionOf(m, today) == NewTask(m, icao_number, today).action

\* C18: the clock never goes back; the action a month task is started with
\* is Final when its month has fully elapsed on the day it starts and
\* Refreshable when it has not, whatever the aircraft, the range and the
\* backend; and from one day to the next the action of a month either
\* stays or goes from Refreshable to Final
C18_OneWayPolicy ==
    /\ [][~DateLess(now', now)]_vars
    /\ [][\A u \in running' :
            (u.tpc = "read" /\ u \notin running)
                => u.action = IF Elapsed(u.month, now) THEN "Final" ELSE "Refreshable"]_vars
    /\ [](\A m \in WindowMonths :
            ActionOf(m, now) = IF Elapsed(m, now) THEN "Final" ELSE "Refreshable")
    /\ [][\A m \in WindowMonths :
            ActionOf(m, now) = "Final" => ActionOf(m, now') = "Final"]_vars

C18_Witness ==
    /\ now = ClockEnd
    /\ calls = 2
    /\ \E t \in running :
          /\ t.month = Date(2023, 12, 1)
          /\ t.action = "Final"
          /\ t.key \in DOMAIN returned
    /\ ActionOf(Date(2024, 1, 1), now) = "Refreshable"

\* the months of the range, as first days
TouchedMonths == {Date(p[1], p[2], 1) : p \in MonthPairs(from, to)}

\* the mapping month_positions returned for the month m in this call
BucketOf(m) == returned[KeyOf(icao_number, m)]

\* what the call returns when the month tasks are dispatched in the order q
AssembleIn(q) == Assemble([i \in 1..Len(q) |-> BucketOf(q[i])], from, to)

\* no date is held by the buckets of two months of the range
DisjointBuckets ==
    \A m1, m2 \in TouchedMonths :
        m1 # m2 => DOMAIN BucketOf(m1) \cap DOMAIN BucketOf(m2) = {}

\* the value the bucket that holds the date d holds for it
KeyedValue(d) ==
    BucketOf(CHOOSE m \in TouchedMonths : d \in DOMAIN BucketOf(m))[d]

CorruptKeys == {k \in DOMAIN store : store[k].kind = "corrupt"}

\* C21: a month task that reads a key holding bytes that do not
\* deserialize takes these bytes without running the producer, and fails
\* when it decodes them: the call returns the error; the producer is never
\* run for such a key and nothing is written under it, so the object stays
\* as it is and every later task that reads the key fails the same way
C21_CorruptIsFatal ==
    /\ [](failed.kind = "decode"
            => /\ apc = "returned"
               /\ outcome = Err
               /\ failed.key \in CorruptKeys)
    /\ [](\A k \in CorruptKeys : k \notin produced /\ k \notin written)
    /\ [][\A k \in CorruptKeys : k \in DOMAIN store' /\ store'[k] = store[k]]_vars
    /\ [][\A t \in running :
            (t.tpc = "read" /\ t.key \in CorruptKeys /\ t \notin running')
                => [t EXCEPT !.tpc = "decode", !.bytes = store[t.key]] \in running']_vars
    /\ [][\A t \in running :
            (t.tpc = "decode" /\ t.key \in CorruptKeys /\ t \notin running')
                => /\ failed' = [kind |-> "decode", key |-> t.key]
                   /\ apc' = "returned"
                   /\ outcome' = Err
                   /\ store' = store]_vars

C21_Witness ==
    /\ calls = 2
    /\ apc = "returned"
    /\ failed.kind = "decode"
    /\ failed.key \in CorruptKeys
    /\ Cardinality(started) = 2
    /\ Cardinality(written) = 1

\* C11 as stated: by the time the call has returned, it has launched as
\* many month tasks as the range has distinct (year, month) pairs
C11_OneTaskPerMonth ==
    apc = "returned" => Cardinality(started) = Cardinality(MonthPairs(from, to))

\* C11 amended: the tasks queued are one per distinct (year, month) pair of
\* the range; each launch starts one queued month that was not started
\* before, and the month it is given is a first day; a call in which no
\* task fails has launched exactly one task per distinct pair, a call of
\* k >= 1 days inside one month exactly one task, and a call in which a
\* task fails at least one and no more than the distinct pairs
C11_MonthDedup ==
    /\ [](apc = "collect"
            => /\ Len(queue) + Cardinality(started)
                    = Cardinality(MonthPairs(from, to))
               /\ \A i \in 1..Len(queue) : queue[i] \notin started)
    /\ [](\A m \in started :
            m.day = 1 /\ <<m.year, m.month>> \in MonthPairs(from, to))
    /\ [](\A t \in running : t.month.day = 1 /\ t.month \in started)
    /\ []((apc = "returned" /\ failed.kind = "none")
            => Cardinality(started) = Cardinality(MonthPairs(from, to)))
    /\ []((apc = "returned" /\ Cardinality(MonthPairs(from, to)) = 1)
            => Cardinality(started) = 1)
    /\ []((apc = "returned" /\ failed.kind # "none")
            => /\ started # {}
               /\ Cardinality(started) <= Cardinality(MonthPairs(from, to)))
    /\ [][(apc = "collect" /\ started' # started /\ calls' = calls)
            => /\ Cardinality(started') = Cardinality(started) + 1
               /\ Len(queue') = Len(queue) - 1]_vars

C11_Witness ==
    /\ apc = "returned"
    /\ outcome.tag = "Ok"
    /\ Cardinality(DatesBetween(from, to)) = 2
    /\ Cardinality(started) = 1

(***************************************************************************)
(* Properties of the leg segmenter.                                        *)
(***************************************************************************)
Samples == [i \in 1..Len(trace) |-> ToPosition(trace[i])]

Finished == lpc \in {"done", "abort"} /\ trace # <<>>

\* the maximal runs of consecutive Flying samples, as <<first, last>>
FlyingRuns ==
    {r \in (1..Len(trace)) \X (1..Len(trace)) :
        /\ r[1] <= r[2]
        /\ \A i \in r[1]..r[2] : IsFlying(Samples[i])
        /\ r[1] = 1 \/ IsGrounded(Samples[r[1] - 1])
        /\ r[2] = Len(trace) \/ IsGrounded(Samples[r[2] + 1])}

\* the runs in trace order
RunsInOrder ==
    CHOOSE q \in [1..Cardinality(FlyingRuns) -> FlyingRuns] :
        \A i, j \in DOMAIN q : i < j => q[i][1] < q[j][1]

FirstGrounded ==
    CHOOSE i \in 1..Len(trace) :
        IsGrounded(Samples[i]) /\ \A j \in 1..(i - 1) : IsFlying(Samples[j])

\* one leg per run, from the sample before the run to the sample after it
LegsOfRuns ==
    /\ Len(legs) = Cardinality(FlyingRuns)
    /\ \A i \in 1..Len(legs) :
          legs[i] = Leg(Samples[RunsInOrder[i][1] - 1], Samples[RunsInOrder[i][2] + 1])

GroundedAtBothEnds ==
    trace # <<>> /\ IsGrounded(Samples[1]) /\ IsGrounded(Samples[Len(trace)])

\* C2: on a trace that starts and ends Grounded the segmenter returns one
\* leg per maximal run of Flying samples, in trace order, from the Grounded
\* sample before the run to the Grounded sample after it
C2_OneLegPerRun ==
    (Finished /\ GroundedAtBothEnds) => (lpc = "done" /\ LegsOfRuns)

\* C7: on a trace that starts Flying and holds a Grounded sample the
\* segmenter returns, and its first leg goes from the first sample to the
\* first Grounded sample
C7_StartsAirborne ==
    (Finished /\ IsFlying(Samples[1]) /\ \E i \in 1..Len(trace) : IsGrounded(Samples[i]))
        => /\ lpc = "done"
           /\ legs # <<>>
           /\ legs[1] = Leg(Samples[1], Samples[FirstGrounded])

C7_Witness ==
    /\ lpc = "done"
    /\ Len(trace) >= 3
    /\ IsFlying(Samples[1])
    /\ IsFlying(Samples[2])
    /\ Len(legs) = 2

\* C8: on a trace that ends Flying and for which the pass opened a leg,
\* the last leg returned goes from the Grounded sample before the final
\* run to the final sample, and the earlier legs are those of the pass
C8_EndsAirborne ==
    (lpc = "done" /\ trace # <<>> /\ IsFlying(Samples[Len(trace)]) /\ snapshot # <<>>)
        => /\ Len(legs) = Len(snapshot)
           /\ \A i \in 1..(Len(legs) - 1) : legs[i] = snapshot[i]
           /\ legs[Len(legs)].to = Samples[Len(trace)]
           /\ \E r \in FlyingRuns :
                 /\ r[2] = Len(trace)
                 /\ r[1] > 1
                 /\ legs[Len(legs)].from = Samples[r[1] - 1]

C8_Witness ==
    /\ lpc = "done"
    /\ trace # <<>>
    /\ IsFlying(Samples[Len(trace)])
    /\ IsFlying(Samples[Len(trace) - 1])
    /\ Len(legs) = 2

\* C9: the segmenter aborts exactly when the pass produced no leg, which
\* happens only when every sample is Flying; a trace that holds a Grounded
\* sample yields at least one leg and returns
C9_AbortOnlyWhenAirborne ==
    Finished
        => /\ lpc = "abort" <=> snapshot = <<>>
           /\ snapshot = <<>> => \A i \in 1..Len(trace) : IsFlying(Samples[i])
           /\ (\E i \in 1..Len(trace) : IsGrounded(Samples[i]))
                 => (lpc = "done" /\ legs # <<>>)

\* what legs() returned, once it has
Returned == [tag |-> IF lpc = "done" THEN "Ok" ELSE "Abort",
             legs |-> IF lpc = "done" THEN legs ELSE <<>>]

\* the trace with the altitude of sample i replaced
WithAltitude(tr, i, a) == [tr EXCEPT ![i].alt = a]

\* C14: a sample with a numeric altitude below 1000 is classified Grounded
\* and one with a numeric altitude of 1000 or more Flying at that altitude;
\* and what the segmenter returns for a trace is what it returns for the
\* same trace with any one ground sentinel replaced by a numeric altitude
\* below 1000
C14_AltitudeThreshold ==
    /\ (lpc = "loop" /\ trace[idx - 1].alt.t = "num")
          => LET e == trace[idx - 1] IN
               /\ e.alt.n < 1000 => prev_position = Grounded(e.lat, e.long)
               /\ e.alt.n >= 1000 => prev_position = Flying(e.lat, e.long, e.alt.n)
    /\ lpc \in {"done", "abort"}
          => /\ Returned = LegsOf(trace)
             /\ \A i \in 1..Len(trace) :
                   trace[i].alt = Ground
                       => \A x \in {0, 999} :
                             LegsOf(WithAltitude(trace, i, Num(x))) = Returned

C14_Witness ==
    /\ lpc = "done"
    /\ Len(legs) = 2
    /\ \E i, j \in 1..Len(trace) :
          /\ i < j
          /\ trace[i].alt = Ground
          /\ trace[j].alt = Num(999)
          /\ trace[j - 1].alt = Num(1000)

\* C15: on the empty trace the segmenter enters neither the pass nor the
\* assertion; once the trace is fetched it returns the empty list
C15_EmptyTrace ==
    /\ [](trace = <<>> => (lpc \in {"start", "err", "done"} /\ legs = <<>>))
    /\ [][(trace = <<>> /\ lpc = "start" /\ lpc' # "err") => lpc' = "done"]_vars

C15_Witness == trace = <<>> /\ lpc = "done" /\ legs = <<>>

\* C16: in the list returned, every leg goes from a sample of the trace to
\* a strictly later sample of the trace, and a leg ends no later than the
\* next leg starts (the latitude of a sample is its index in the trace)
C16_LegsOrdered ==
    lpc = "done"
        => /\ \A i \in 1..Len(legs) :
                 /\ legs[i].from.lat \in 1..Len(trace)
                 /\ legs[i].to.lat \in 1..Len(trace)
                 /\ legs[i].from = Samples[legs[i].from.lat]
                 /\ legs[i].to = Samples[legs[i].to.lat]
                 /\ legs[i].from.lat < legs[i].to.lat
           /\ \A i \in 1..(Len(legs) - 1) : legs[i].to.lat <= legs[i + 1].from.lat

C16_Witness ==
    /\ lpc = "done"
    /\ Len(legs) = 2
    /\ legs[1].to.lat < legs[2].from.lat
    /\ IsFlying(legs[2].to)

\* C17: the list returned has one leg per maximal run of Flying samples;
\* and during the pass, when a Flying sample is followed by a Grounded one
\* while the leg list is empty, every sample so far was Flying
C17_OneLegPerFlyingRun ==
    /\ lpc = "done" => Len(legs) = Cardinality(FlyingRuns)
    /\ (/\ lpc = "loop"
        /\ idx <= Len(trace)
        /\ IsFlying(prev_position)
        /\ IsGrounded(ToPosition(trace[idx]))
        /\ legs = <<>>)
          => \A j \in 1..(idx - 1) : IsFlying(Samples[j])

C17_Witness ==
    /\ lpc = "done"
    /\ Cardinality(FlyingRuns) = 3
    /\ IsFlying(Samples[1])
    /\ IsFlying(Samples[Len(trace)])
    /\ Len(legs) = 3

(***************************************************************************)
(* Properties of the key codec.                                            *)
(***************************************************************************)
\* C6: the key of (icao, first day of year-month) decodes to the same
\* icao and the first day of the same year and month
C6_KeyRoundTrip ==
    kpc = "decoded"
        => parsed = [tag |-> "Some", icao |-> pk.icao, year |-> pk.year,
                     month |-> pk.month, day |-> 1]


(***************************************************************************)
(* Properties of the enumeration of the stored month buckets.              *)
(***************************************************************************)
\* the (aircraft, month) pairs whose bucket is stored, for the months asked
StoredPairs ==
    {pr \in [icao : ListIcaos, date : Range(months)] :
        KeyOf(pr.icao, pr.date) \in DOMAIN store}

FourDigitYears == \A i \in 1..Len(months) : Len(FmtInt(months[i].year)) = 4

\* C12: when the months asked have four-digit years and no page request
\* fails, the enumeration returns whatever else the backend holds: it does
\* not abort, no pair comes from a name that is not a bucket key, and the
\* pair of every stored bucket is returned
C12_MalformedSkipped ==
    (xpc = "returned" /\ existing.tag # "Err" /\ FourDigitYears)
        => /\ existing.tag = "Ok"
           /\ existing.set = StoredPairs

BucketNames ==
    {KeyOf(i, m) : i \in ListIcaos,
                   m \in {Date(2024, 1, 1), Date(2024, 2, 1), Date(999, 1, 1)}}
FullDateNames ==
    {Base \o Jan24 \o <<"-", "0", "5", "/">> \o TraceFull \o <<"a">> \o DotJson}

\* the backend holds month buckets and objects under full-date directories
OnlyBuckets == DOMAIN store \subseteq BucketNames \cup FullDateNames

\* C20: over a backend that holds month buckets and objects under
\* full-date directories, an enumeration none of whose page requests fails
\* returns exactly the pairs of the buckets stored for the months asked
C20_ExactlyStored ==
    (xpc = "returned" /\ existing.tag # "Err" /\ OnlyBuckets)
        => /\ existing.tag = "Ok"
           /\ existing.set = StoredPairs

==========================================================================
